---- MODULE Spec2Model ----
(***************************************************************************)
(* Model of scripts/captive-portal-server.py: the WiFi connector, the VPN  *)
(* connector, the firewall profile application, the management-access      *)
(* assertion, the status probe, the health-check thread and the startup    *)
(* sequence, run by the threads of the process (main, the request-handler  *)
(* threads of ThreadedTCPServer, the health-check thread).                 *)
(*                                                                         *)
(* One action is one external command (nmcli, nordvpn, iptables, a profile *)
(* script, a read or write of the state file) together with the local      *)
(* control flow that follows it up to the next external command.  Commands *)
(* that touch nothing the model records (rescan, profile deletion, sleep)  *)
(* are folded into the action of the command before them.                  *)
(***************************************************************************)
EXTENDS Integers, Sequences, FiniteSets, TLC

\* ---------------------------------------------------------------- constants
WIFI_MAX_RETRIES == 3
VPN_MAX_RETRIES == 3
HEALTH_WIFI_RETRIES == 2
VPN_SERVERS == <<"", "us", "uk", "de", "nl", "ch">>

\* ------------------------------------------------------------------- bounds
MaxRequests == 1
MaxCycles == 1
MaxDrops == 1
MaxSerialRequests == 2
MaxPairRequests == 2
MaxRestarts == 1
MaxHealDrops == 2
MaxLossCycles == 2
MaxErrors == 1
MaxHangRequests == 1
MaxRaceRequests == 2
MaxRaceCycles == 1

\* The scenario a specification explores.  req, cyc, drop, restart, err: how
\* many requests, health-check cycles, losses, restarts and caught exceptions;
\* overlap: operations may run at the same time; pool: the handler threads in
\* use; faults: a profile script may be missing, fail or remove rules;
\* ruleloss: the management rules may be removed from outside; forever: the
\* health-check loop is not cut after cyc cycles; net: "good" when the
\* network is joinable and the VPN service reachable, so connects succeed.
Scenario ==
  [req |-> 0, cyc |-> 0, drop |-> 0, restart |-> 0, err |-> 0,
   overlap |-> FALSE, pool |-> {"h1"}, faults |-> TRUE,
   ruleloss |-> FALSE, forever |-> FALSE, net |-> "any", hang |-> FALSE]

\* ------------------------------------------------------------------ threads
Handlers == {"h1", "h2"}
Threads == Handlers \cup {"health", "main"}

\* --------------------------------------------------------- request inputs
SSIDs == {"", "home"}
Passwords == {"", "pw"}

\* A key that the state file does not hold (dict.get returns None).
Absent == "<absent>"
EmptyState == [ssid |-> Absent, pw |-> Absent, vpn |-> Absent]

\* Python truthiness of state.get(key): None and '' are both false.
Truthy(v) == v # Absent /\ v # ""

\* ------------------------------------------------- text of the tool outputs
TxtConnected == <<"c", "o", "n", "n", "e", "c", "t", "e", "d">>
TxtCapConnected == <<"C", "o", "n", "n", "e", "c", "t", "e", "d">>

\* GENERAL.STATE of wlan0 as nmcli prints it, e.g. "100 (connected)".
NmcliStateText(dev) ==
  CASE dev = "connected" -> <<"1", "0", "0", " ", "(">> \o TxtConnected \o <<")">>
    [] dev = "disconnected" -> <<"3", "0", " ", "(", "d", "i", "s">> \o TxtConnected \o <<")">>
    [] OTHER -> <<"2", "0", " ", "(", "u", "n", "a", "v", "a", "i", "l", "a", "b", "l", "e", ")">>

\* "Status: ..." line of `nordvpn status`.
NordStatusText(up) ==
  IF up THEN <<"S", "t", "a", "t", "u", "s", ":", " ">> \o TxtCapConnected
  ELSE <<"S", "t", "a", "t", "u", "s", ":", " ", "D", "i", "s">> \o TxtConnected

LowerChar(c) ==
  CASE c = "C" -> "c" [] c = "D" -> "d" [] c = "S" -> "s" [] OTHER -> c

Lower(s) == [i \in 1..Len(s) |-> LowerChar(s[i])]

\* Python `needle in hay`.
Contains(needle, hay) ==
  \E i \in 1..(Len(hay) - Len(needle) + 1) :
    SubSeq(hay, i, i + Len(needle) - 1) = needle

\* ---------------------------------------------------------------- variables
VARIABLES
  th,          \* thread -> its position and locals
  wifiDev,     \* NetworkManager state of wlan0
  wifiIp,      \* an inet address is bound to wlan0
  vpnUp,       \* the tunnel is up (what `nordvpn status` reports)
  rules,       \* management rule -> number of copies in the INPUT chain
  fwProfile,   \* the profile whose script ran last
  dnsRedirect, \* the captive-portal DNS redirect is configured
  persisted,   \* contents of the state file
  requests,    \* requests served so far
  cycles,      \* health-check cycles started so far
  drops,       \* link, tunnel or rule losses so far
  restarts,    \* restarts of the process so far
  errors,      \* exceptions caught by the health-check loop so far
  lim          \* the scenario explored: how many requests, cycles and losses

env == <<wifiDev, wifiIp, vpnUp>>
fw == <<rules, fwProfile>>
counters == <<requests, cycles, drops, restarts, errors, lim>>
vars == <<th, wifiDev, wifiIp, vpnUp, rules, fwProfile, dnsRedirect,
          persisted, requests, cycles, drops, restarts, errors, lim>>

\* ------------------------------------------------- management-access rules
\* cmds[1..5] of ensure_management_access: SSH, portal HTTP, DHCP, DNS, loopback.
Rules == 1..5
\* The position each rule is inserted at (iptables -I INPUT <pos>).
InsertPos == <<1, 2, 3, 4, 1>>
NoRules == [r \in Rules |-> 0]
ChainLen(rs) == rs[1] + rs[2] + rs[3] + rs[4] + rs[5]
ManagementPresent == \A r \in Rules : rules[r] >= 1

\* What a profile script may do to the management rules: leave them, or
\* flush the chain.
Removals == {{}, Rules}

\* The outcomes of a firewall application in the scenario explored: with
\* faults a script may be missing, exit non-zero or remove rules; without,
\* every script is installed, exits zero and keeps the management rules.
ScriptFound == IF lim.faults THEN BOOLEAN ELSE {TRUE}
ScriptExit0 == IF lim.faults THEN BOOLEAN ELSE {TRUE}
ScriptRemoves == IF lim.faults THEN Removals ELSE {{}}
\* How the child process of a profile script ends: it exits, or, in the
\* scenarios that say so, it never does.
ScriptEnds == IF lim.hang THEN {"exits", "never"} ELSE {"exits"}
AfterScript(rs, rem) == [r \in Rules |-> IF r \in rem THEN 0 ELSE rs[r]]

\* The network is joinable and the VPN service reachable: in the scenarios
\* that say so, from the first loss on.
NetGood == lim.net = "good" /\ drops > 0

\* ------------------------------------------------------------ thread locals
NoStatus == [wifi |-> FALSE, vpn |-> FALSE, inet |-> FALSE, mode |-> "unknown"]
NoVpnAttempts == [i \in 1..Len(VPN_SERVERS) |-> 0]

Fresh(pc0) ==
  [pc |-> pc0, mut |-> "none",
   ssid |-> "", pw |-> "", maxr |-> 0, attempt |-> 0, srv |-> 1,
   success |-> FALSE, ip_out |-> FALSE, status_ok |-> FALSE,
   mode |-> "none", found |-> FALSE, rc0 |-> FALSE, fwres |-> FALSE,
   fwret |-> "none", eret |-> "none", ei |-> 0, server |-> "",
   res |-> "none", status |-> NoStatus, st |-> EmptyState,
   startProfile |-> "none", startState |-> EmptyState,
   attempts |-> 0, delAt |-> {}, rescanAt |-> {}, cycleAt |-> {},
   vatt |-> NoVpnAttempts, fwlog |-> <<>>, saved |-> EmptyState]

Serving == th["main"].pc = "serving"

\* No request is being handled and the health-check thread sleeps.
Quiet == \A t \in Handlers \cup {"health"} : th[t].pc = "idle"

\* A thread is inside one of the mutating operations.
InMutation(t) == th[t].mut # "none"

Set(t, r) == th' = [th EXCEPT ![t] = r]

\* ------------------------------------------------ ensure_management_access
\* Enter ensure_management_access; `ret` is where the caller goes on.
CallEnsure(r, ret) == [r EXCEPT !.pc = "ens_chk", !.ei = 1, !.eret = ret]

\* Mutant: the loop stops one command short, the loopback rule is never asserted.
EnsureNext_SkipsLast(r) ==
  IF r.ei >= 4 THEN [r EXCEPT !.ei = 6, !.pc = r.eret]
  ELSE [r EXCEPT !.ei = r.ei + 1, !.pc = "ens_chk"]

\* The for loop moves to the next command, or the function returns.
EnsureNext(r) ==
  IF r.ei = 5 THEN [r EXCEPT !.ei = 6, !.pc = r.eret]
  ELSE [r EXCEPT !.ei = r.ei + 1, !.pc = "ens_chk"]

\* Mutant: the rule is inserted without looking whether it is there.
EnsureCheck_Blind(t) ==
  /\ th[t].pc = "ens_chk"
  /\ Set(t, [th[t] EXCEPT !.pc = "ens_ins"])
  /\ UNCHANGED <<env, fw, dnsRedirect, persisted, counters>>

\* iptables -C: the check half of cmds[ei].
EnsureCheck(t) ==
  /\ th[t].pc = "ens_chk"
  /\ IF rules[th[t].ei] >= 1
       THEN Set(t, EnsureNext(th[t]))
       ELSE Set(t, [th[t] EXCEPT !.pc = "ens_ins"])
  /\ UNCHANGED <<env, fw, dnsRedirect, persisted, counters>>

\* iptables -I INPUT <pos>: fails when the chain is shorter than pos - 1.
InsertRule(rs, r) ==
  IF ChainLen(rs) >= InsertPos[r] - 1 THEN [rs EXCEPT ![r] = rs[r] + 1] ELSE rs

EnsureInsert(t) ==
  /\ th[t].pc = "ens_ins"
  /\ rules' = InsertRule(rules, th[t].ei)
  /\ Set(t, EnsureNext(th[t]))
  /\ UNCHANGED <<env, fwProfile, dnsRedirect, persisted, counters>>

\* ------------------------------------------------ setup_*_mode_firewall
\* Mutant: the script is run whether or not find_script found it.
CallFirewall_RunsAnyway(r, mode, ret, found) ==
  [r EXCEPT !.pc = "fw_run", !.mode = mode, !.fwret = ret,
            !.found = found, !.ei = 0]

\* Enter setup_<mode>_mode_firewall: find_script, then the script or the
\* early return.  `found` is what os.path.exists answers at this moment.
CallFirewall(r, mode, ret, found) ==
  IF found
    THEN [r EXCEPT !.pc = "fw_run", !.mode = mode, !.fwret = ret,
                   !.found = TRUE, !.ei = 0]
    ELSE [r EXCEPT !.pc = "fw_ret", !.mode = mode, !.fwret = ret,
                   !.found = FALSE, !.rc0 = FALSE, !.ei = 0,
                   !.fwlog = Append(r.fwlog, <<mode, "notfound">>)]

\* Mutant: the script's result is returned without the assertion.
AfterRunScript_NoEnsure(r) == [r EXCEPT !.pc = "fw_ret"]

\* After the script: ensure_management_access, always.
AfterRunScript(r) == CallEnsure(r, "fw_ret")

\* subprocess.run(["bash", script], capture_output=True, text=True): the
\* call has no timeout, so it returns when the child exits and not before.
RunScript(t) ==
  /\ th[t].pc = "fw_run"
  /\ \E end \in ScriptEnds, rc \in ScriptExit0, rem \in ScriptRemoves :
       IF end = "exits"
         THEN /\ rules' = AfterScript(rules, rem)
              /\ fwProfile' = th[t].mode
              /\ Set(t, AfterRunScript(
                     [th[t] EXCEPT !.rc0 = rc,
                                   !.fwlog = Append(th[t].fwlog,
                                       <<th[t].mode,
                                         IF rc THEN "ok" ELSE "nonzero">>)]))
         ELSE /\ Set(t, [th[t] EXCEPT !.pc = "fw_wait"])
              /\ UNCHANGED fw
  /\ UNCHANGED <<env, dnsRedirect, persisted, counters>>

\* The caller's code after setup_*_mode_firewall returned r.fwres.
AfterFirewall(r) ==
  CASE r.fwret = "w_ok" -> CallEnsure([r EXCEPT !.res = "ok"], "w_ret")
    [] r.fwret = "w_fail" -> CallEnsure([r EXCEPT !.res = "fail"], "w_ret")
    [] r.fwret = "v_fw" ->
         IF r.fwres THEN CallEnsure([r EXCEPT !.res = "ok"], "v_ret")
         ELSE [r EXCEPT !.res = "degraded", !.pc = "v_ret"]
    [] r.fwret = "d_fw" -> CallEnsure(r, "d_ret")
    [] r.fwret = "rv_fw" -> CallEnsure([r EXCEPT !.res = "ok"], "rv_ret")
    [] OTHER -> CallEnsure(r, "serving")

\* Mutant: a script that was found counts as applied, whatever its exit code.
FirewallResult_FoundOnly(r) == r.found

\* The value setup_*_mode_firewall returns.
FirewallResult(r) == r.found /\ r.rc0

\* setup_*_mode_firewall returns to its caller.
FirewallReturn(t) ==
  /\ th[t].pc = "fw_ret"
  /\ Set(t, AfterFirewall([th[t] EXCEPT !.fwres = FirewallResult(th[t])]))
  /\ UNCHANGED <<env, fw, dnsRedirect, persisted, counters>>

\* ----------------------------------------------------------- the state file
\* save_state(d) replaces the whole file by d.
WifiStateDict(ssid, pw) == [ssid |-> ssid, pw |-> pw, vpn |-> Absent]
VpnStateDict(server) == [ssid |-> Absent, pw |-> Absent, vpn |-> server]
SaveState(old, d) == d

\* ------------------------------------------------------------- get_status
\* Mutant: the WiFi branches are tested before the VPN branch.
DeriveMode_WifiFirst(s) ==
  IF s.wifi /\ s.inet THEN "internet"
  ELSE IF s.wifi THEN "captive_portal_needed"
  ELSE IF s.vpn THEN "vpn"
  ELSE "captive"

DeriveMode(s) ==
  IF s.vpn THEN "vpn"
  ELSE IF s.wifi /\ s.inet THEN "internet"
  ELSE IF s.wifi THEN "captive_portal_needed"
  ELSE "captive"

\* 'connected' in output.lower()
WifiConnectedIn(text) == Contains(TxtConnected, Lower(text))
\* 'Connected' in vpn_out
VpnConnectedIn(text) == Contains(TxtCapConnected, text)

\* nmcli ... dev show wlan0
StatusWifi(t) ==
  /\ th[t].pc = "s_wifi"
  /\ Set(t, [th[t] EXCEPT !.pc = "s_vpn",
                          !.status = [NoStatus EXCEPT
                             !.wifi = WifiConnectedIn(NmcliStateText(wifiDev))]])
  /\ UNCHANGED <<env, fw, dnsRedirect, persisted, counters>>

\* nordvpn status, then the ping, then the mode.
StatusVpn(t) ==
  /\ th[t].pc = "s_vpn"
  /\ \E ping \in BOOLEAN :
       /\ NetGood => ping = (wifiDev = "connected" /\ wifiIp)
       /\ LET s1 == [th[t].status EXCEPT
                    !.vpn = VpnConnectedIn(NordStatusText(vpnUp)),
                    !.inet = ping]
          IN Set(t, [th[t] EXCEPT !.pc = "s_ret",
                                  !.status = [s1 EXCEPT !.mode = DeriveMode(s1)]])
  /\ UNCHANGED <<env, fw, dnsRedirect, persisted, counters>>

\* ------------------------------------------------ connect_wifi_with_retry
EnterWifi(r, ssid, pw, maxr) ==
  [r EXCEPT !.pc = "w_disc", !.mut = "wifi", !.ssid = ssid, !.pw = pw,
            !.maxr = maxr, !.attempt = 0, !.res = "none",
            !.startProfile = fwProfile, !.startState = persisted]

DeletesProfile(attempt) == attempt = 0
ForcesRescan(attempt) == attempt = 1
\* Mutant: the radio reset starts one attempt late.
PowerCycles_Late(attempt) == attempt > 2

PowerCycles(attempt) == attempt >= 2

\* nmcli dev disconnect wlan0; then the stale-profile removal or the rescan.
WifiDisconnect(t) ==
  /\ th[t].pc = "w_disc"
  /\ wifiDev' = IF wifiDev = "unavailable" THEN wifiDev ELSE "disconnected"
  /\ wifiIp' = FALSE
  /\ LET a == th[t].attempt
         r1 == [th[t] EXCEPT
                  !.delAt = IF DeletesProfile(a) THEN @ \cup {a} ELSE @,
                  !.rescanAt = IF ForcesRescan(a) THEN @ \cup {a} ELSE @]
     IN Set(t, [r1 EXCEPT !.pc = IF ~ForcesRescan(a) /\ PowerCycles(a)
                                   THEN "w_radio_off" ELSE "w_conn"])
  /\ UNCHANGED <<vpnUp, fw, dnsRedirect, persisted, counters>>

\* nmcli radio wifi off
WifiRadioOff(t) ==
  /\ th[t].pc = "w_radio_off"
  /\ wifiDev' = "unavailable"
  /\ wifiIp' = FALSE
  /\ Set(t, [th[t] EXCEPT !.pc = "w_radio_on"])
  /\ UNCHANGED <<vpnUp, fw, dnsRedirect, persisted, counters>>

\* nmcli radio wifi on; nmcli dev wifi rescan
WifiRadioOn(t) ==
  /\ th[t].pc = "w_radio_on"
  /\ wifiDev' = IF wifiDev = "unavailable" THEN "disconnected" ELSE wifiDev
  /\ Set(t, [th[t] EXCEPT !.pc = "w_conn",
                          !.cycleAt = @ \cup {th[t].attempt}])
  /\ UNCHANGED <<wifiIp, vpnUp, fw, dnsRedirect, persisted, counters>>

\* Mutant: the loop gives up one attempt before the budget is used.
AfterFailedAttempt_OneShort(r) ==
  IF r.attempt + 1 < r.maxr - 1
    THEN [r EXCEPT !.attempt = r.attempt + 1, !.pc = "w_disc"]
    ELSE [r EXCEPT !.pc = "w_dns_on"]

\* The end of a failed loop iteration: the next attempt, or the fallback.
AfterFailedAttempt(r) ==
  IF r.attempt + 1 < r.maxr
    THEN [r EXCEPT !.attempt = r.attempt + 1, !.pc = "w_disc"]
    ELSE [r EXCEPT !.pc = "w_dns_on"]

\* connect_wifi_nmcli(ssid, password)
WifiConnect(t) ==
  /\ th[t].pc = "w_conn"
  /\ \E out \in {"fail", "ok_ip", "ok_noip"} :
       /\ (th[t].ssid = "" \/ wifiDev = "unavailable") => out = "fail"
       /\ (NetGood /\ th[t].ssid # "" /\ wifiDev # "unavailable") => out = "ok_ip"
       /\ wifiDev' = IF out = "fail" THEN wifiDev ELSE "connected"
       /\ wifiIp' = IF out = "fail" THEN wifiIp ELSE (out = "ok_ip")
       /\ LET r1 == [th[t] EXCEPT !.attempts = @ + 1,
                                   !.success = (out # "fail"),
                                   !.ip_out = FALSE]
          IN Set(t, IF r1.success THEN [r1 EXCEPT !.pc = "w_ipchk"]
                    ELSE AfterFailedAttempt(r1))
  /\ UNCHANGED <<vpnUp, fw, dnsRedirect, persisted, counters>>

\* Mutant: the exit code of the connect command is trusted.
WifiVerified_CommandOnly(r) == r.success

\* if ip_out: the verification that decides the attempt.
WifiVerified(r) == r.success /\ r.ip_out

\* ip addr show wlan0 | grep 'inet '
WifiIpCheck(t) ==
  /\ th[t].pc = "w_ipchk"
  /\ LET r1 == [th[t] EXCEPT !.ip_out = wifiIp]
     IN Set(t, IF WifiVerified(r1) THEN [r1 EXCEPT !.pc = "w_save"]
               ELSE AfterFailedAttempt(r1))
  /\ UNCHANGED <<env, fw, dnsRedirect, persisted, counters>>

\* save_state({'last_wifi_ssid': ssid, 'last_wifi_password': password})
WifiSave(t) ==
  /\ th[t].pc = "w_save"
  /\ persisted' = SaveState(persisted, WifiStateDict(th[t].ssid, th[t].pw))
  /\ Set(t, [th[t] EXCEPT !.pc = "w_dns_off", !.saved = persisted'])
  /\ UNCHANGED <<env, fw, dnsRedirect, counters>>

\* remove_dns_redirect(); setup_internet_mode_firewall()
WifiDnsOff(t) ==
  /\ th[t].pc = "w_dns_off"
  /\ dnsRedirect' = FALSE
  /\ \E found \in ScriptFound :
       Set(t, CallFirewall(th[t], "internet", "w_ok", found))
  /\ UNCHANGED <<env, fw, persisted, counters>>

\* setup_dns_redirect(); setup_captive_mode_firewall()
WifiDnsOn(t) ==
  /\ th[t].pc = "w_dns_on"
  /\ dnsRedirect' = TRUE
  /\ \E found \in ScriptFound :
       Set(t, CallFirewall(th[t], "captive", "w_fail", found))
  /\ UNCHANGED <<env, fw, persisted, counters>>

\* ------------------------------------------------- connect_vpn_with_retry
EnterVpn(r) ==
  [r EXCEPT !.pc = "v_conn", !.mut = "vpn", !.srv = 1, !.attempt = 0,
            !.server = VPN_SERVERS[1], !.res = "none",
            !.startProfile = fwProfile, !.startState = persisted]

\* code == 0 or "You are connected" in output or "Already connected" in output
VpnCommandAccepted(out) == out \in {"code0", "already"}

\* Mutant: a server is given up one attempt early.
AfterFailedVpnAttempt_Early(r) ==
  IF r.attempt + 1 < VPN_MAX_RETRIES - 1
    THEN [r EXCEPT !.attempt = r.attempt + 1]
  ELSE IF r.srv < Len(VPN_SERVERS)
    THEN [r EXCEPT !.srv = r.srv + 1, !.attempt = 0,
                   !.server = VPN_SERVERS[r.srv + 1]]
  ELSE [r EXCEPT !.res = "fail", !.pc = "v_ret"]

\* The end of a failed attempt: retry, the next server, or give up.
AfterFailedVpnAttempt(r) ==
  IF r.attempt + 1 < VPN_MAX_RETRIES
    THEN [r EXCEPT !.attempt = r.attempt + 1]
  ELSE IF r.srv < Len(VPN_SERVERS)
    THEN [r EXCEPT !.srv = r.srv + 1, !.attempt = 0,
                   !.server = VPN_SERVERS[r.srv + 1]]
  ELSE [r EXCEPT !.res = "fail", !.pc = "v_ret"]

\* nordvpn connect [server]
VpnConnect(t) ==
  /\ th[t].pc = "v_conn"
  /\ \E out \in {"code0", "already", "fail"}, up \in BOOLEAN :
       /\ out = "already" => vpnUp
       /\ out # "code0" => up = vpnUp
       /\ NetGood => (out = "code0" /\ up)
       /\ vpnUp' = up
       /\ LET r1 == [th[t] EXCEPT !.vatt[th[t].srv] = @ + 1,
                                   !.success = VpnCommandAccepted(out),
                                   !.status_ok = FALSE]
          IN Set(t, IF r1.success THEN [r1 EXCEPT !.pc = "v_status"]
                    ELSE AfterFailedVpnAttempt([r1 EXCEPT !.pc = "v_conn"]))
  /\ UNCHANGED <<wifiDev, wifiIp, fw, dnsRedirect, persisted, counters>>

\* if 'Connected' in status_out: the verification that decides the attempt.
VpnVerified(r) == r.success /\ r.status_ok

\* nordvpn status
VpnStatus(t) ==
  /\ th[t].pc = "v_status"
  /\ LET r1 == [th[t] EXCEPT !.status_ok = VpnConnectedIn(NordStatusText(vpnUp))]
     IN Set(t, IF VpnVerified(r1) THEN [r1 EXCEPT !.pc = "v_save"]
               ELSE AfterFailedVpnAttempt([r1 EXCEPT !.pc = "v_conn"]))
  /\ UNCHANGED <<env, fw, dnsRedirect, persisted, counters>>

\* save_state({'last_vpn_server': server}); setup_vpn_mode_firewall()
VpnSave(t) ==
  /\ th[t].pc = "v_save"
  /\ persisted' = SaveState(persisted, VpnStateDict(th[t].server))
  /\ \E found \in ScriptFound :
       Set(t, CallFirewall([th[t] EXCEPT !.saved = persisted'], "vpn", "v_fw", found))
  /\ UNCHANGED <<env, fw, dnsRedirect, counters>>

\* The (success, message) pair connect_vpn_with_retry returns.
VpnReturnValue(r) ==
  CASE r.res = "ok" -> <<TRUE, "Connected to VPN (server)">>
    [] r.res = "degraded" -> <<TRUE, "Connected (kill switch failed)">>
    [] OTHER -> <<FALSE, "VPN connection failed after trying multiple servers">>

\* ---------------------------------------------------------- disconnect_vpn
EnterDisconnect(r) ==
  [r EXCEPT !.pc = "d_cmd", !.mut = "disc", !.res = "none",
            !.startProfile = fwProfile]

\* How a command run by run_cmd ends, and the code run_cmd returns for it:
\* the command's own, or 1 after subprocess.TimeoutExpired.
CmdOutcomes == {"zero", "nonzero", "timeout"}
RunCmdCode0(out) == out = "zero"

\* Mutant: the profile is re-applied only when the disconnect command succeeded.
DisconnectCmd_OnlyOnSuccess(t) ==
  /\ th[t].pc = "d_cmd"
  /\ \E out \in CmdOutcomes, found \in ScriptFound :
       LET code0 == RunCmdCode0(out)
       IN /\ vpnUp' = IF code0 THEN FALSE ELSE vpnUp
          /\ Set(t, IF code0
                      THEN CallFirewall([th[t] EXCEPT !.success = code0],
                                        "internet", "d_fw", found)
                      ELSE [th[t] EXCEPT !.success = code0, !.pc = "d_ret"])
  /\ UNCHANGED <<wifiDev, wifiIp, fw, dnsRedirect, persisted, counters>>

\* nordvpn disconnect; setup_internet_mode_firewall()
DisconnectCmd(t) ==
  /\ th[t].pc = "d_cmd"
  /\ \E out \in CmdOutcomes, found \in ScriptFound :
       LET code0 == RunCmdCode0(out)
       IN /\ vpnUp' = IF code0 THEN FALSE ELSE vpnUp
          /\ Set(t, CallFirewall([th[t] EXCEPT !.success = code0],
                                 "internet", "d_fw", found))
  /\ UNCHANGED <<wifiDev, wifiIp, fw, dnsRedirect, persisted, counters>>

\* ------------------------------------------------------- health_check_thread
\* The end of a cycle: back to time.sleep(60).
CycleEnd == Fresh("idle")

\* if status wifi and internet and not vpn: if state.get('last_vpn_server')
HealthWantsVpn(r) ==
  r.status.wifi /\ r.status.inet /\ ~r.status.vpn /\ Truthy(r.st.vpn)

\* The second half of the cycle, with the status and state read earlier.
HealthVpnStep(r) ==
  IF HealthWantsVpn(r)
    THEN [Fresh("rv_load") EXCEPT !.status = r.status, !.st = r.st]
    ELSE CycleEnd

\* if not status['wifi_connected'] and state.get('last_wifi_ssid')
HealthWantsWifi(r) == ~r.status.wifi /\ Truthy(r.st.ssid)

\* Mutant: the cycle starts with the probe, without the assertion.
HealthWake_NoEnsure ==
  /\ Serving
  /\ th["health"].pc = "idle"
  /\ lim.forever \/ cycles < lim.cyc
  /\ lim.overlap \/ Quiet
  /\ cycles' = IF lim.forever THEN cycles ELSE cycles + 1
  /\ Set("health", Fresh("s_wifi"))
  /\ UNCHANGED <<env, fw, dnsRedirect, persisted, requests, drops, restarts, errors, lim>>

\* time.sleep(60) is over: ensure_management_access()
HealthWake ==
  /\ Serving
  /\ th["health"].pc = "idle"
  /\ lim.forever \/ cycles < lim.cyc
  /\ lim.overlap \/ Quiet
  /\ cycles' = IF lim.forever THEN cycles ELSE cycles + 1
  /\ Set("health", CallEnsure(Fresh("idle"), "s_wifi"))
  /\ UNCHANGED <<env, fw, dnsRedirect, persisted, requests, drops, restarts, errors, lim>>

\* except Exception as e: log(...); the while loop goes on with the next sleep.
HealthError ==
  /\ th["health"].pc # "idle"
  /\ errors < lim.err
  /\ errors' = errors + 1
  /\ Set("health", CycleEnd)
  /\ UNCHANGED <<env, fw, dnsRedirect, persisted, requests, cycles, drops, restarts, lim>>

\* state = load_state() in the cycle
HealthLoad ==
  /\ th["health"].pc = "h_load"
  /\ LET r1 == [th["health"] EXCEPT !.st = persisted]
     IN Set("health", IF HealthWantsWifi(r1) THEN [r1 EXCEPT !.pc = "rw_load"]
                      ELSE HealthVpnStep(r1))
  /\ UNCHANGED <<env, fw, dnsRedirect, persisted, counters>>

\* Mutant: the reconnect runs the connector with its default budget.
ReconnectWifiLoad_FullBudget ==
  /\ th["health"].pc = "rw_load"
  /\ LET r == th["health"]
         ssid == persisted.ssid
         pw == IF persisted.pw = Absent THEN "" ELSE persisted.pw
     IN Set("health", IF Truthy(ssid)
                        THEN EnterWifi(r, ssid, pw, WIFI_MAX_RETRIES)
                        ELSE HealthVpnStep(r))
  /\ UNCHANGED <<env, fw, dnsRedirect, persisted, counters>>

\* Mutant: the saved password is not passed on.
ReconnectWifiLoad_NoPassword ==
  /\ th["health"].pc = "rw_load"
  /\ LET r == th["health"]
         ssid == persisted.ssid
     IN Set("health", IF Truthy(ssid)
                        THEN EnterWifi(r, ssid, "", HEALTH_WIFI_RETRIES)
                        ELSE HealthVpnStep(r))
  /\ UNCHANGED <<env, fw, dnsRedirect, persisted, counters>>

\* reconnect_last_wifi: load_state(), then the connector with two attempts.
ReconnectWifiLoad ==
  /\ th["health"].pc = "rw_load"
  /\ LET r == th["health"]
         ssid == persisted.ssid
         pw == IF persisted.pw = Absent THEN "" ELSE persisted.pw
     IN Set("health", IF Truthy(ssid)
                        THEN EnterWifi(r, ssid, pw, HEALTH_WIFI_RETRIES)
                        ELSE HealthVpnStep(r))
  /\ UNCHANGED <<env, fw, dnsRedirect, persisted, counters>>

\* reconnect_last_vpn: load_state(); if server:
ReconnectVpnLoad ==
  /\ th["health"].pc = "rv_load"
  /\ LET server == IF persisted.vpn = Absent THEN "" ELSE persisted.vpn
     IN Set("health", IF Truthy(server)
                        THEN [th["health"] EXCEPT !.pc = "rv_conn", !.mut = "rvpn",
                                                  !.server = server,
                                                  !.startProfile = fwProfile]
                        ELSE CycleEnd)
  /\ UNCHANGED <<env, fw, dnsRedirect, persisted, counters>>

\* nordvpn connect <server>; if code == 0: setup_vpn_mode_firewall()
ReconnectVpnCmd ==
  /\ th["health"].pc = "rv_conn"
  /\ \E code0 \in BOOLEAN, up \in BOOLEAN, found \in ScriptFound :
       /\ ~code0 => up = vpnUp
       /\ NetGood => (code0 /\ up)
       /\ vpnUp' = up
       /\ Set("health", IF code0
                          THEN CallFirewall([th["health"] EXCEPT !.success = TRUE],
                                            "vpn", "rv_fw", found)
                          ELSE CycleEnd)
  /\ UNCHANGED <<wifiDev, wifiIp, fw, dnsRedirect, persisted, counters>>

\* ------------------------------------------------------------------ returns
\* connect_wifi_with_retry returns to handle_connect or to the health cycle.
WifiReturn(t) ==
  /\ th[t].pc = "w_ret"
  /\ Set(t, IF t = "health" THEN HealthVpnStep(th[t])
            ELSE IF th[t].res = "ok" THEN Fresh("s_wifi")
            ELSE Fresh("idle"))
  /\ UNCHANGED <<env, fw, dnsRedirect, persisted, counters>>

\* connect_vpn_with_retry, disconnect_vpn or reconnect_last_vpn returns.
VpnReturn(t) ==
  /\ th[t].pc \in {"v_ret", "d_ret", "rv_ret"}
  /\ Set(t, Fresh("idle"))
  /\ UNCHANGED <<env, fw, dnsRedirect, persisted, counters>>

\* get_status returns to the handler or to the health cycle.
StatusReturn(t) ==
  /\ th[t].pc = "s_ret"
  /\ Set(t, IF t = "health" THEN [th[t] EXCEPT !.pc = "h_load"] ELSE Fresh("idle"))
  /\ UNCHANGED <<env, fw, dnsRedirect, persisted, counters>>

\* ----------------------------------------------------------------- requests
Accepting(t) ==
  /\ Serving
  /\ t \in lim.pool
  /\ th[t].pc = "idle"
  /\ requests < lim.req
  /\ lim.overlap \/ Quiet

\* POST /connect
ReqConnectWifi(t) ==
  /\ Accepting(t)
  /\ requests' = requests + 1
  /\ \E ssid \in SSIDs, pw \in Passwords :
       /\ ssid = "" => pw = ""
       /\ Set(t, EnterWifi(Fresh("idle"), ssid, pw, WIFI_MAX_RETRIES))
  /\ UNCHANGED <<env, fw, dnsRedirect, persisted, cycles, drops, restarts, errors, lim>>

\* GET /vpn/connect
ReqConnectVpn(t) ==
  /\ Accepting(t)
  /\ requests' = requests + 1
  /\ Set(t, EnterVpn(Fresh("idle")))
  /\ UNCHANGED <<env, fw, dnsRedirect, persisted, cycles, drops, restarts, errors, lim>>

\* GET /vpn/disconnect
ReqDisconnectVpn(t) ==
  /\ Accepting(t)
  /\ requests' = requests + 1
  /\ Set(t, EnterDisconnect(Fresh("idle")))
  /\ UNCHANGED <<env, fw, dnsRedirect, persisted, cycles, drops, restarts, errors, lim>>

\* GET /emergency/reset-firewall: iptables -F, iptables -t nat -F, the
\* policies set to ACCEPT.  The chain is empty afterwards and no profile's
\* rules are in force; the handler does not call ensure_management_access.
ReqEmergencyReset(t) ==
  /\ Accepting(t)
  /\ requests' = requests + 1
  /\ rules' = NoRules
  /\ fwProfile' = "none"
  /\ UNCHANGED <<th, env, dnsRedirect, persisted, cycles, drops, restarts, errors, lim>>

\* GET /api/status
ReqStatus(t) ==
  /\ Accepting(t)
  /\ requests' = requests + 1
  /\ Set(t, Fresh("s_wifi"))
  /\ UNCHANGED <<env, fw, dnsRedirect, persisted, cycles, drops, restarts, errors, lim>>

\* --------------------------------------------------------------------- main
\* nordvpn status
MainProbeVpn ==
  /\ th["main"].pc = "m_vpn"
  /\ Set("main", [th["main"] EXCEPT
                    !.pc = "m_wifi",
                    !.status.vpn = VpnConnectedIn(NordStatusText(vpnUp))])
  /\ UNCHANGED <<env, fw, dnsRedirect, persisted, counters>>

\* nmcli -t -f GENERAL.STATE dev show wlan0
MainProbeWifi ==
  /\ th["main"].pc = "m_wifi"
  /\ Set("main", [th["main"] EXCEPT
                    !.pc = "m_dns",
                    !.status.wifi = WifiConnectedIn(NmcliStateText(wifiDev))])
  /\ UNCHANGED <<env, fw, dnsRedirect, persisted, counters>>

\* The if / elif / else of main.
StartupProfile(s) ==
  IF s.vpn THEN "vpn" ELSE IF s.wifi THEN "internet" ELSE "captive"

\* remove_dns_redirect() or setup_dns_redirect(); setup_<mode>_mode_firewall()
MainDns ==
  /\ th["main"].pc = "m_dns"
  /\ LET mode == StartupProfile(th["main"].status)
     IN /\ dnsRedirect' = (mode = "captive")
        /\ \E found \in ScriptFound :
             Set("main", CallFirewall(th["main"], mode, "m_fw", found))
  /\ UNCHANGED <<env, fw, persisted, counters>>

\* ---------------------------------------------------------- the environment
\* The upstream link is lost.
WifiDrop ==
  /\ Serving
  /\ drops < lim.drop
  /\ lim.overlap \/ Quiet
  /\ wifiDev = "connected"
  /\ \E d \in {"disconnected", "unavailable"} : wifiDev' = d
  /\ wifiIp' = FALSE
  /\ drops' = drops + 1
  /\ UNCHANGED <<th, vpnUp, fw, dnsRedirect, persisted, requests, cycles, restarts, errors, lim>>

\* The tunnel is lost.
VpnDrop ==
  /\ Serving
  /\ drops < lim.drop
  /\ lim.overlap \/ Quiet
  /\ vpnUp
  /\ vpnUp' = FALSE
  /\ drops' = drops + 1
  /\ UNCHANGED <<th, wifiDev, wifiIp, fw, dnsRedirect, persisted, requests, cycles, restarts, errors, lim>>

\* What may be removed from outside: the whole chain, the SSH rule, the
\* rules of the access point.
ExternalRemovals == {Rules, {1}, {2, 3, 4}}

\* Management rules are removed by something other than this program.
ExternalRuleLoss ==
  /\ Serving
  /\ lim.ruleloss
  /\ drops < lim.drop
  /\ lim.overlap \/ Quiet
  /\ \E rem \in ExternalRemovals : rules' = AfterScript(rules, rem)
  /\ drops' = drops + 1
  /\ UNCHANGED <<th, env, fwProfile, dnsRedirect, persisted, requests, cycles,
                 restarts, errors, lim>>

\* The process is killed and started again: main() runs from its first line
\* and the other threads are gone; the state file, the kernel's rules and the
\* links are what they were.  A SIGTERM runs remove_dns_redirect() on the way
\* out, a SIGKILL does not.
Restart ==
  /\ restarts < lim.restart
  /\ requests = lim.req
  /\ restarts' = restarts + 1
  /\ th' = [t \in Threads |->
              IF t = "main" THEN CallEnsure(Fresh("m_start"), "m_vpn")
              ELSE Fresh("idle")]
  /\ \E d \in {dnsRedirect, FALSE} : dnsRedirect' = d
  /\ UNCHANGED <<env, fw, persisted, requests, cycles, drops, errors, lim>>

\* ------------------------------------------------------------ specification
\* main() has just been entered: nothing asserted yet, no threads started.
InitProgram(l) ==
  /\ th = [t \in Threads |->
             IF t = "main" THEN CallEnsure(Fresh("m_start"), "m_vpn")
             ELSE Fresh("idle")]
  /\ wifiDev \in {"connected", "disconnected"}
  /\ wifiIp = (wifiDev = "connected")
  /\ vpnUp \in BOOLEAN
  /\ vpnUp => wifiDev = "connected"
  /\ rules = NoRules
  /\ fwProfile = "none"
  /\ dnsRedirect = FALSE
  /\ persisted = EmptyState
  /\ requests = 0
  /\ cycles = 0
  /\ drops = 0
  /\ restarts = 0
  /\ errors = 0
  /\ lim = l

\* The steps of the firewall application and the management-access assertion.
FirewallStep(t) ==
  \/ EnsureCheck(t)
  \/ EnsureInsert(t)
  \/ RunScript(t)
  \/ FirewallReturn(t)

StatusStep(t) ==
  \/ StatusWifi(t)
  \/ StatusVpn(t)
  \/ StatusReturn(t)

WifiStep(t) ==
  \/ WifiDisconnect(t)
  \/ WifiRadioOff(t)
  \/ WifiRadioOn(t)
  \/ WifiConnect(t)
  \/ WifiIpCheck(t)
  \/ WifiSave(t)
  \/ WifiDnsOff(t)
  \/ WifiDnsOn(t)
  \/ WifiReturn(t)

VpnStep(t) ==
  \/ VpnConnect(t)
  \/ VpnStatus(t)
  \/ VpnSave(t)
  \/ DisconnectCmd(t)
  \/ VpnReturn(t)

VpnRequest(t) ==
  \/ ReqConnectVpn(t)
  \/ ReqDisconnectVpn(t)

Request(t) ==
  \/ ReqConnectWifi(t)
  \/ ReqStatus(t)
  \/ VpnRequest(t)

MainStep ==
  \/ MainProbeVpn
  \/ MainProbeWifi
  \/ MainDns

HealthStep ==
  \/ HealthWake
  \/ HealthLoad
  \/ ReconnectWifiLoad
  \/ ReconnectVpnLoad
  \/ ReconnectVpnCmd

ThreadStep(t) ==
  \/ FirewallStep(t)
  \/ StatusStep(t)
  \/ WifiStep(t)
  \/ VpnStep(t)

Next ==
  \/ \E t \in Threads : ThreadStep(t)
  \/ \E t \in Handlers : Request(t)
  \/ MainStep
  \/ HealthStep
  \/ WifiDrop
  \/ VpnDrop

\* The runs in which operations follow one another: a request is accepted,
\* the health-check thread wakes and the link is lost only while no other
\* operation runs.
Init ==
  InitProgram([Scenario EXCEPT !.req = MaxRequests, !.cyc = MaxCycles,
                               !.drop = MaxDrops])

Spec == Init /\ [][Next]_vars

\* The runs of several requests one after another, within one sleep of the
\* health-check thread.
InitRequests ==
  InitProgram([Scenario EXCEPT !.req = MaxSerialRequests])

NextRequests ==
  \/ \E t \in Threads : ThreadStep(t)
  \/ \E t \in Handlers : Request(t)
  \/ MainStep

SpecRequests == InitRequests /\ [][NextRequests]_vars

\* The runs in which a VPN connect on one handler thread overlaps a VPN
\* disconnect on the other, with every profile script installed and sound.
InitPair ==
  InitProgram([Scenario EXCEPT !.req = MaxPairRequests, !.overlap = TRUE,
                               !.pool = Handlers, !.faults = FALSE])

NextPair ==
  \/ \E t \in Threads : FirewallStep(t) \/ VpnStep(t)
  \/ ReqConnectVpn("h1")
  \/ ReqDisconnectVpn("h2")
  \/ MainStep

SpecPair == InitPair /\ [][NextPair]_vars

\* The runs in which the process is restarted once, after the WiFi connect
\* requests have been issued, with a loss of the link and a health-check cycle
\* before or after the restart.
InitRestart ==
  InitProgram([Scenario EXCEPT !.req = MaxRequests, !.cyc = MaxCycles,
                               !.drop = MaxDrops, !.restart = MaxRestarts])

NextRestart ==
  \/ \E t \in Threads : FirewallStep(t) \/ StatusStep(t) \/ WifiStep(t)
  \/ ReqConnectWifi("h1")
  \/ MainStep
  \/ HealthWake
  \/ HealthLoad
  \/ ReconnectWifiLoad
  \/ WifiDrop
  \/ Restart

SpecRestart == InitRestart /\ [][NextRestart]_vars

\* The runs of the self-healing scenario: a WiFi connect request, then, once
\* credentials are stored, VPN connect requests; after the requests the link
\* or the tunnel is lost, and from then on the network is joinable and the
\* VPN service reachable.  The health-check loop runs for ever, and every
\* thread that can step eventually does.
InitHeal ==
  InitProgram([Scenario EXCEPT !.req = MaxSerialRequests, !.drop = MaxHealDrops,
                               !.faults = FALSE, !.forever = TRUE,
                               !.net = "good"])

HealThreadStep(t) ==
  \/ FirewallStep(t)
  \/ StatusStep(t)
  \/ WifiStep(t)
  \/ VpnConnect(t)
  \/ VpnStatus(t)
  \/ VpnSave(t)
  \/ VpnReturn(t)

NextHeal ==
  \/ \E t \in Threads : HealThreadStep(t)
  \/ requests = 0 /\ ReqConnectWifi("h1") /\ th'["h1"].ssid = "home"
  \/ requests > 0 /\ Truthy(persisted.ssid) /\ ReqConnectVpn("h1")
  \/ MainStep
  \/ HealthStep
  \/ requests = lim.req /\ WifiDrop
  \/ requests = lim.req /\ VpnDrop

SpecHeal ==
  /\ InitHeal
  /\ [][NextHeal]_vars
  /\ WF_vars(MainStep)
  /\ WF_vars(HealthStep)
  /\ WF_vars(\E t \in Threads : HealThreadStep(t))

\* The runs of the health-check loop alone: cycles one after another, an
\* exception caught in a cycle, and management rules removed from outside
\* while the thread sleeps.
InitLoss ==
  InitProgram([Scenario EXCEPT !.cyc = MaxLossCycles, !.drop = MaxDrops,
                               !.err = MaxErrors, !.ruleloss = TRUE])

NextLoss ==
  \/ \E t \in Threads : FirewallStep(t) \/ StatusStep(t)
  \/ MainStep
  \/ HealthWake
  \/ HealthLoad
  \/ HealthError
  \/ ExternalRuleLoss

SpecLoss == InitLoss /\ [][NextLoss]_vars

\* The runs in which a profile script may never exit: the startup and a VPN
\* disconnect request.
InitHang ==
  InitProgram([Scenario EXCEPT !.req = MaxHangRequests, !.hang = TRUE])

HangThreadStep(t) ==
  \/ FirewallStep(t)
  \/ DisconnectCmd(t)
  \/ VpnReturn(t)

NextHang ==
  \/ \E t \in Threads : HangThreadStep(t)
  \/ ReqDisconnectVpn("h1")
  \/ MainStep

SpecHang == InitHang /\ [][NextHang]_vars

\* The runs in which a health-check cycle overlaps the requests of a handler
\* thread: a firewall reset and a VPN disconnect, with every profile script
\* installed and sound.
InitRace ==
  InitProgram([Scenario EXCEPT !.req = MaxRaceRequests, !.cyc = MaxRaceCycles,
                               !.overlap = TRUE, !.faults = FALSE])

RaceThreadStep(t) ==
  \/ FirewallStep(t)
  \/ StatusStep(t)
  \/ DisconnectCmd(t)
  \/ VpnReturn(t)

NextRace ==
  \/ \E t \in Threads : RaceThreadStep(t)
  \/ ReqEmergencyReset("h1")
  \/ ReqDisconnectVpn("h1")
  \/ MainStep
  \/ HealthWake
  \/ HealthLoad

SpecRace == InitRace /\ [][NextRace]_vars

\* ================================================================== claims

\* C1: at no point are two mutating operations (WiFi connect, VPN connect,
\* VPN disconnect, the reconnects, a firewall application) in progress at
\* the same time.
MutationsNeverOverlap ==
  \A t \in Threads, u \in Threads :
    (t # u /\ InMutation(t)) => ~InMutation(u)

\* C2: a mutation request issued while another mutating operation is still
\* executing is rejected (Busy): it never starts executing, so it performs
\* no network or firewall side effect.
BusyRequestRejected ==
  [][\A t \in Handlers :
       (~InMutation(t) /\ InMutation(t)') =>
         (\A u \in Threads \ {t} : ~InMutation(u))]_vars

\* C3: whenever no transition is in progress (startup is over, no request is
\* being handled, the health-check thread sleeps), every management-access
\* rule is present, whatever the profile scripts did before.
ManagementAccessWhenQuiet == (Serving /\ Quiet) => ManagementPresent

\* C3 witness: startup, a request, a loss of the link and a health-check
\* cycle are over, and the cycle's reconnect fell back to the Captive profile.
ManagementAccessWhenQuiet_Witness ==
  /\ Serving /\ Quiet
  /\ requests = 1 /\ cycles = 1 /\ drops = 1
  /\ fwProfile = "captive"
  /\ persisted.ssid = "home"
  /\ ManagementPresent

ModeTable(wifi, inet, vpn) ==
  CASE vpn -> "vpn"
    [] ~vpn /\ wifi /\ inet -> "internet"
    [] ~vpn /\ wifi /\ ~inet -> "captive_portal_needed"
    [] ~vpn /\ ~wifi -> "captive"

\* C5: the mode the status probe returns is the one the precedence table
\* gives for (wifiConnected, internetReachable, vpnConnected), and is never
\* unknown.
ProbeModeMatchesTable ==
  \A t \in Threads :
    th[t].pc = "s_ret" =>
      /\ th[t].status.mode =
           ModeTable(th[t].status.wifi, th[t].status.inet, th[t].status.vpn)
      /\ th[t].status.mode # "unknown"

\* C5 witness: a probe returns with WiFi, internet and VPN all up.
ProbeModeMatchesTable_Witness ==
  \E t \in Threads :
    /\ th[t].pc = "s_ret"
    /\ th[t].status.wifi /\ th[t].status.inet /\ th[t].status.vpn
    /\ th[t].status.mode = "vpn"

\* The remediation of the claim for a call of maxr attempts.
ExhaustedRemediation(r) ==
  /\ r.attempts = r.maxr
  /\ r.delAt = {0}
  /\ r.rescanAt = {a \in 0..(r.maxr - 1) : a = 1}
  /\ r.cycleAt = {a \in 0..(r.maxr - 1) : a >= 2}

\* C6 as claimed: a WiFi connect that returns failure made exactly
\* maxAttempts attempts with the escalating remediation, and the last
\* firewall profile applied is Captive.
WifiExhaustedLeavesCaptive ==
  \A t \in Threads :
    (th[t].pc = "w_ret" /\ th[t].res = "fail") =>
      (ExhaustedRemediation(th[t]) /\ fwProfile = "captive")

\* C6 as amended: the same attempts and remediation; the one firewall
\* application of the call is that of the Captive profile, which is the last
\* profile applied provided its script is found.
WifiExhaustedTriesCaptive ==
  \A t \in Threads :
    (th[t].pc = "w_ret" /\ th[t].res = "fail") =>
      /\ ExhaustedRemediation(th[t])
      /\ Len(th[t].fwlog) = 1
      /\ th[t].fwlog[1][1] = "captive"
      /\ th[t].found => fwProfile = "captive"

\* C6 witness: a request's three attempts all failed, the radio was reset
\* on the third, and the Captive script was run.
WifiExhaustedTriesCaptive_Witness ==
  \E t \in Handlers :
    /\ th[t].pc = "w_ret" /\ th[t].res = "fail"
    /\ th[t].ssid = "home"
    /\ th[t].attempts = WIFI_MAX_RETRIES
    /\ th[t].cycleAt = {2}
    /\ th[t].found /\ fwProfile = "captive"

\* C7: the endpoints are tried in list order, each to exhaustion before the
\* next; a connect that succeeds on endpoint k tried no later endpoint and
\* persisted endpoint k; one that fails tried every endpoint maxAttempts
\* times.
VpnFallbackInOrder ==
  \A t \in Threads :
    LET r == th[t]
        n == Len(VPN_SERVERS)
    IN /\ r.mut = "vpn" =>
            \A k \in 1..n :
              r.vatt[k] > 0 => \A j \in 1..(k - 1) : r.vatt[j] = VPN_MAX_RETRIES
       /\ (r.pc = "v_ret" /\ r.res \in {"ok", "degraded"}) =>
            /\ r.vatt[r.srv] \in 1..VPN_MAX_RETRIES
            /\ \A j \in (r.srv + 1)..n : r.vatt[j] = 0
            /\ persisted.vpn = VPN_SERVERS[r.srv]
       /\ (r.pc = "v_ret" /\ r.res = "fail") =>
            \A j \in 1..n : r.vatt[j] = VPN_MAX_RETRIES

\* C7 witness: the third endpoint is the first verified; the first two were
\* tried three times each, the last three never.
VpnFallbackInOrder_Witness ==
  \E t \in Handlers :
    /\ th[t].pc = "v_ret" /\ th[t].res = "ok"
    /\ th[t].srv = 3
    /\ th[t].vatt[1] = 3 /\ th[t].vatt[2] = 3 /\ th[t].vatt[3] = 2
    /\ th[t].vatt[4] = 0 /\ th[t].vatt[5] = 0 /\ th[t].vatt[6] = 0
    /\ persisted.vpn = "uk"

\* C8: a VPN connect started in Internet mode that fails on all endpoints
\* has re-applied the Internet profile when it returns.
VpnFailureReappliesInternet ==
  \A t \in Threads :
    (th[t].pc = "v_ret" /\ th[t].res = "fail" /\ th[t].startProfile = "internet") =>
      \E i \in 1..Len(th[t].fwlog) : th[t].fwlog[i][1] = "internet"

\* C9: a connect call writes the state file only once its attempt is
\* verified (WiFi: the command succeeded and an address is bound; VPN: the
\* status query reports connected), and a call that returns failure wrote
\* nothing: the file is as it was when the call began.
StateWrittenOnlyWhenVerified ==
  \A t \in Threads :
    LET r == th[t]
    IN /\ (r.pc = "w_save" \/ (r.mut = "wifi" /\ r.saved # EmptyState)) =>
            (r.success /\ r.ip_out)
       /\ (r.pc = "v_save" \/ (r.mut = "vpn" /\ r.saved # EmptyState)) =>
            (r.success /\ r.status_ok)
       /\ (r.pc \in {"w_ret", "v_ret"} /\ r.res = "fail") =>
            (r.saved = EmptyState /\ persisted = r.startState)

\* C9 witness: a reconnect returns failure and credentials saved by an
\* earlier connect are still in the file.
StateWrittenOnlyWhenVerified_Witness ==
  \E t \in Threads :
    /\ th[t].pc = "w_ret" /\ th[t].res = "fail"
    /\ persisted = WifiStateDict("home", "pw")

\* C10: persisted credentials are never deleted: a persisted WiFi SSID stays
\* persisted across every later step, and so does a persisted VPN endpoint.
CredentialsNeverDeleted ==
  [][/\ persisted.ssid # Absent => persisted'.ssid # Absent
     /\ persisted.vpn # Absent => persisted'.vpn # Absent]_vars

\* The health-check thread takes a step (and the process is not restarted).
HealthSteps == th'["health"] # th["health"] /\ restarts' = restarts

\* C11: a verified WiFi connect stores exactly its ssid and password, and a
\* health-check cycle that observes WiFi down while credentials are stored,
\* also after a restart of the process, enters the WiFi connector with
\* exactly the stored ssid and password (an empty password included).
RestartReconnectsAsSaved ==
  /\ [](\A t \in Threads :
          th[t].pc = "w_dns_off" =>
            persisted = WifiStateDict(th[t].ssid, th[t].pw))
  /\ [][/\ (/\ th["health"].pc = "h_load"
            /\ ~th["health"].status.wifi
            /\ Truthy(persisted.ssid)
            /\ HealthSteps) => th'["health"].pc = "rw_load"
        /\ (/\ th["health"].pc = "rw_load"
            /\ Truthy(persisted.ssid)
            /\ HealthSteps) =>
             /\ th'["health"].pc = "w_disc"
             /\ th'["health"].mut = "wifi"
             /\ th'["health"].attempts = 0
             /\ th'["health"].maxr = HEALTH_WIFI_RETRIES
             /\ th'["health"].ssid = persisted.ssid
             /\ th'["health"].pw = persisted.pw]_vars

\* C11 witness: after a connect with an empty password and a restart, the
\* cycle that saw WiFi down enters the connector with "home" and "".
RestartReconnectsAsSaved_Witness ==
  /\ restarts = 1 /\ requests = 1
  /\ th["health"].pc = "w_disc" /\ th["health"].attempts = 0
  /\ ~th["health"].status.wifi
  /\ th["health"].ssid = "home" /\ th["health"].pw = ""
  /\ persisted = WifiStateDict("home", "")

\* The user connected WiFi, then the VPN, and the link has been lost since.
LinkLostAfterBothConnects ==
  /\ requests = lim.req
  /\ persisted.vpn # Absent
  /\ drops > 0
  /\ wifiDev # "connected"

\* C12: once the user has connected WiFi and then the VPN and the link is
\* lost, with the network joinable and the VPN service reachable, the
\* health-check thread eventually has WiFi connected again and the tunnel up.
SelfHealsAfterLinkLoss ==
  LinkLostAfterBothConnects ~> (wifiDev = "connected" /\ wifiIp /\ vpnUp)

\* C13: on both paths that bring up the VPN (connect_vpn_with_retry and
\* reconnect_last_vpn) the kill-switch profile is applied, and success is
\* returned, only after a status query made after the connect command
\* reported the tunnel connected.
KillSwitchOnlyAfterStatusQuery ==
  \A t \in Threads :
    /\ (th[t].pc \in {"fw_run", "fw_ret"} /\ th[t].fwret \in {"v_fw", "rv_fw"}) =>
         th[t].status_ok
    /\ (th[t].pc \in {"v_ret", "rv_ret"} /\ th[t].res \in {"ok", "degraded"}) =>
         th[t].status_ok

\* C14 as claimed: whatever the disconnect command returned, when
\* disconnect_vpn returns the Internet profile is the one applied last and
\* the management-access assertion has run after it.
DisconnectLeavesInternet ==
  \A t \in Threads :
    th[t].pc = "d_ret" =>
      (fwProfile = "internet" /\ th[t].ei = 6 /\ ManagementPresent)

\* C14 as amended: whatever the disconnect command returned (zero, non-zero
\* or the code of a timeout), disconnect_vpn has called the Internet profile
\* application exactly once, which applied the profile if its script was
\* found, and has run the management-access assertion to its end after it.
DisconnectReappliesInternet ==
  \A t \in Threads :
    th[t].pc = "d_ret" =>
      /\ Len(th[t].fwlog) = 1
      /\ th[t].fwlog[1][1] = "internet"
      /\ th[t].found => fwProfile = "internet"
      /\ th[t].ei = 6
      /\ ManagementPresent

\* C14 witness: the disconnect command did not exit zero, the kill-switch
\* profile was in force, and the Internet profile and the rules are in place.
DisconnectReappliesInternet_Witness ==
  \E t \in Handlers :
    /\ th[t].pc = "d_ret"
    /\ ~th[t].success
    /\ th[t].startProfile = "vpn"
    /\ th[t].found /\ fwProfile = "internet"
    /\ th[t].ei = 6 /\ ManagementPresent

\* C15: when a VPN connect is about to return full protection and every other
\* thread is between operations, the kill-switch profile is not in force
\* with the tunnel down.  (In the runs of a connect overlapping a disconnect
\* the tunnel, once verified, goes down only by the disconnect command.)
KillSwitchNeverOutlivesDisconnect ==
  \A t \in Handlers :
    (/\ th[t].pc = "v_ret" /\ th[t].res = "ok"
     /\ \A u \in Threads \ {t, "main"} : th[u].pc = "idle") =>
      ~(fwProfile = "vpn" /\ ~vpnUp)

\* C16: a health-check cycle that observed WiFi down and ends without WiFi
\* connected leaves the Captive profile as the one applied last, whether or
\* not credentials are stored.
LostWifiEndsInCaptive ==
  [][(/\ th["health"].pc \in {"h_load", "rw_load", "w_ret"}
      /\ ~th["health"].status.wifi
      /\ th'["health"].pc = "idle"
      /\ restarts' = restarts
      /\ wifiDev' # "connected") => fwProfile' = "captive"]_vars

\* C17: when a status probe made after a verified VPN connect (its endpoint
\* is in the state file) returns mode vpn, the kill-switch profile is the one
\* applied last; a tunnel that is up without it is not reported as vpn.
VpnModeMeansKillSwitch ==
  \A t \in Threads :
    (/\ th[t].pc = "s_ret"
     /\ th[t].status.mode = "vpn"
     /\ persisted.vpn # Absent) => fwProfile = "vpn"

\* The outcome of the kill-switch application of a VPN connect call.
KillSwitchOutcome(r) == r.fwlog[Len(r.fwlog)]

\* C18: a VPN connect that verified the tunnel returns success; it returns
\* the full-protection message only if the kill-switch script ran and exited
\* zero, and a different message when the script failed or is missing.
DegradedResultIsDistinct ==
  \A t \in Threads :
    (th[t].pc = "v_ret" /\ th[t].status_ok) =>
      /\ Len(th[t].fwlog) = 1
      /\ VpnReturnValue(th[t])[1] = TRUE
      /\ VpnReturnValue(th[t])[2] = "Connected to VPN (server)"
           <=> KillSwitchOutcome(th[t]) = <<"vpn", "ok">>
      /\ VpnReturnValue(th[t])[2] = "Connected (kill switch failed)"
           <=> KillSwitchOutcome(th[t]) \in {<<"vpn", "nonzero">>, <<"vpn", "notfound">>}

\* C18 witness: the tunnel is up and verified, the kill-switch script exited
\* non-zero, and the connector returns the degraded message.
DegradedResultIsDistinct_Witness ==
  \E t \in Handlers :
    /\ th[t].pc = "v_ret" /\ th[t].status_ok /\ vpnUp
    /\ KillSwitchOutcome(th[t]) = <<"vpn", "nonzero">>
    /\ VpnReturnValue(th[t]) = <<TRUE, "Connected (kill switch failed)">>

\* C19: a health-check cycle whose probe shows WiFi connected, internet
\* reachable and the VPN down goes on to reconnect_last_vpn and attempts a VPN
\* connect whenever the state file holds an endpoint, the auto endpoint ""
\* included.
HealthReconnectsAnyEndpoint ==
  [][LET h == th["health"]
         wanted == h.status.wifi /\ h.status.inet /\ ~h.status.vpn
     IN /\ (/\ h.pc = "h_load" /\ wanted
            /\ persisted.vpn # Absent
            /\ HealthSteps) => th'["health"].pc = "rv_load"
        /\ (/\ h.pc = "rv_load"
            /\ persisted.vpn # Absent
            /\ HealthSteps) => th'["health"].pc = "rv_conn"]_vars

\* C20: a health-check cycle runs the management-access assertion to its end
\* before it probes or loads the state; at the end of that assertion every
\* management rule is present, whatever was removed from outside before the
\* cycle; and while the loop has cycles left the thread can always start the
\* next one, also after an exception.
HealthAssertsFirst ==
  /\ th["health"].pc \in {"s_wifi", "s_vpn", "s_ret", "h_load"} =>
       th["health"].ei = 6
  /\ th["health"].pc = "s_wifi" => ManagementPresent
  /\ (Serving /\ Quiet /\ cycles < lim.cyc) => ENABLED HealthWake

\* C20 witness: an exception ended the first cycle, rules were removed from
\* outside, and the second cycle's assertion has put them back.
HealthAssertsFirst_Witness ==
  /\ cycles = 2 /\ errors = 1 /\ drops = 1
  /\ th["health"].pc = "s_wifi"
  /\ ManagementPresent

\* C21: when the management-access assertion is run again and again, one run
\* after the other, a rule is inserted only while it is absent, so no
\* management rule is ever in the chain more than once.
AssertionIsIdempotent ==
  /\ \A r \in Rules : rules[r] <= 1
  /\ \A t \in Threads : th[t].pc = "ens_ins" => rules[th[t].ei] = 0

\* C21 witness: the assertion has run at startup (three times) and in two
\* health-check cycles, rules were removed in between, and every rule is in
\* the chain exactly once.
AssertionIsIdempotent_Witness ==
  /\ cycles = 2 /\ drops = 1
  /\ th["health"].pc = "s_wifi"
  /\ \A r \in Rules : rules[r] = 1

\* C22: when the script of the requested profile is not found, the firewall
\* application returns False, has run no script, and has left the rules and
\* the profile in force as they were; the caller goes on to its return.
MissingScriptIsHarmless ==
  /\ [](\A t \in Threads :
          (th[t].pc = "fw_ret" /\ ~th[t].found) =>
             /\ ~FirewallResult(th[t])
             /\ th[t].fwlog # << >>
             /\ th[t].fwlog[Len(th[t].fwlog)] = <<th[t].mode, "notfound">>
             /\ (th[t].mut \in {"wifi", "vpn", "disc"}
                   => fwProfile = th[t].startProfile))
  /\ [][\A t \in Threads :
          (th'[t].pc = "fw_ret" /\ ~th'[t].found /\ th[t].pc # "fw_ret")
             => (rules' = rules /\ fwProfile' = fwProfile)]_vars
  /\ [][\A t \in Threads :
          (th[t].pc = "fw_ret" /\ ~th[t].found /\ th'[t].pc # "fw_ret")
             => \/ th'[t].pc = "ens_chk"
                \/ th'[t].pc = "v_ret" /\ th'[t].res = "degraded"]_vars

\* C22 witness: a VPN disconnect whose Internet script was missing has
\* reached its return; the VPN profile it started under is still in force.
MissingScriptIsHarmless_Witness ==
  \E t \in Handlers :
    /\ th[t].pc = "d_ret" /\ th[t].mut = "disc" /\ ~th[t].found
    /\ th[t].fwlog = << <<"internet", "notfound">> >>
    /\ th[t].startProfile = "vpn" /\ fwProfile = "vpn"

\* C23: every external command a mutating operation runs is bounded by a
\* timeout: a thread that is inside a VPN disconnect can always take its next
\* step, whatever the external tools and the profile scripts do.
EveryCommandReturns ==
  \A t \in Threads : InMutation(t) => ENABLED HangThreadStep(t)

\* C24: the WiFi connector is never running with an empty ssid in a way that
\* touches the system: a connect request whose ssid is empty or missing has
\* not disconnected wlan0, has removed no saved profile and has left the
\* firewall profile and the DNS redirect as they were.
EmptySsidTouchesNothing ==
  \A t \in Threads :
    (th[t].mut = "wifi" /\ th[t].ssid = "") =>
       /\ th[t].pc = "w_disc" /\ th[t].attempt = 0
       /\ th[t].delAt = {}
       /\ fwProfile = th[t].startProfile

\* C25 as stated: a WiFi connector that returns success leaves the Internet
\* profile in force.
WifiSuccessLeavesInternet ==
  \A t \in Threads :
    (th[t].pc = "w_ret" /\ th[t].mut = "wifi" /\ th[t].res = "ok")
       => fwProfile = "internet"

\* C25: the WiFi connector returns success exactly when its last attempt had
\* a successful connect command and an address on wlan0 afterwards; that
\* attempt is the first such one and is within the budget; on success the
\* credentials are stored, the Internet profile application was called (and is
\* in force when its script was found) and management access was asserted;
\* a failure return has used the whole budget, and an attempt is repeated only
\* after one that lacked the command's success or the address.
WifiResultMatchesAttempts ==
  \A t \in Threads :
    LET r == th[t]
    IN /\ (r.pc = "w_ret" /\ r.mut = "wifi") =>
            /\ (r.res = "ok") <=> (r.success /\ r.ip_out)
            /\ r.res \in {"ok", "fail"}
            /\ r.attempts <= r.maxr
            /\ r.res = "ok" =>
                 /\ r.attempts = r.attempt + 1
                 /\ r.saved = WifiStateDict(r.ssid, r.pw)
                 /\ persisted = r.saved
                 /\ Len(r.fwlog) = 1 /\ r.fwlog[1][1] = "internet"
                 /\ r.found => fwProfile = "internet"
                 /\ ManagementPresent
            /\ r.res = "fail" => r.attempts = r.maxr
       /\ (r.pc = "w_disc" /\ r.attempt > 0) =>
            /\ ~(r.success /\ r.ip_out)
            /\ r.attempts = r.attempt

\* C25 witness: a connector returns success on its second attempt, after a
\* first attempt whose command succeeded but left wlan0 without an address.
WifiResultMatchesAttempts_Witness ==
  \E t \in Handlers :
    /\ th[t].pc = "w_ret" /\ th[t].res = "ok"
    /\ th[t].attempts = 2 /\ th[t].attempt = 1
    /\ fwProfile = "internet" /\ th[t].found
    /\ persisted = WifiStateDict("home", "pw")

\* C26 as stated: a health-check WiFi reconnect whose attempts all failed
\* leaves the Captive profile in force.
HealthReconnectLeavesCaptive ==
  (th["health"].pc = "w_ret" /\ th["health"].res = "fail")
     => fwProfile = "captive"

\* C26: the WiFi reconnect of the health-check thread has a budget of two
\* attempts, below the connector's three: it makes at most two attempts
\* (profile removal on the first, rescan on the second), never switches the
\* radio off and on, and when both attempts failed its one firewall
\* application is that of the Captive profile, which is then in force
\* provided the script was found.
HealthReconnectBudget ==
  LET r == th["health"]
  IN r.mut = "wifi" =>
       /\ r.maxr = 2 /\ r.maxr < WIFI_MAX_RETRIES
       /\ r.attempts <= 2
       /\ r.cycleAt = {}
       /\ r.pc \notin {"w_radio_off", "w_radio_on"}
       /\ (r.pc = "w_ret" /\ r.res = "fail") =>
            /\ r.attempts = 2
            /\ r.delAt = {0} /\ r.rescanAt = {1}
            /\ Len(r.fwlog) = 1 /\ r.fwlog[1][1] = "captive"
            /\ dnsRedirect
            /\ r.found => fwProfile = "captive"

\* C26 witness: the reconnect's two attempts have failed and the Captive
\* script has been run, after a request had left the Internet profile.
HealthReconnectBudget_Witness ==
  LET r == th["health"]
  IN /\ r.pc = "w_ret" /\ r.mut = "wifi" /\ r.res = "fail"
     /\ r.attempts = 2 /\ r.cycleAt = {}
     /\ r.startProfile = "internet"
     /\ r.found /\ fwProfile = "captive"

\* C27: a VPN disconnect and a successful VPN connect never return with the
\* DNS redirect enabled while the Internet or the VPN profile is in force.
RedirectOnlyUnderCaptive ==
  \A t \in Threads :
    (th[t].pc = "d_ret" \/ (th[t].pc = "v_ret" /\ th[t].res = "ok")) =>
       ~(dnsRedirect /\ fwProfile \in {"internet", "vpn"})

\* C28: when the management-access assertion runs on the health-check thread
\* and on a handler thread at the same time, after a firewall reset has
\* emptied the chain, no management rule is inserted twice.
NoRuleInsertedTwice ==
  \A r \in Rules : rules[r] < 2

\* C29: once main has chosen its startup profile, the choice is: VPN when the
\* VPN is connected; otherwise Internet when wlan0 is connected; otherwise
\* Captive; and the DNS redirect is enabled exactly for Captive.  Until the
\* second management-access assertion has returned, no request is handled
\* and the health-check thread has not run.
StartupPrecedence ==
  /\ (~Serving /\ th["main"].fwret = "m_fw") =>
        /\ th["main"].mode =
             (IF vpnUp THEN "vpn"
              ELSE IF wifiDev = "connected" THEN "internet" ELSE "captive")
        /\ dnsRedirect = (th["main"].mode = "captive")
  /\ ~Serving => (Quiet /\ requests = 0 /\ cycles = 0)

\* C30: a status probe that has read the state of wlan0 reports WiFi
\* connected exactly when the device state is "connected"; for
\* "disconnected" and "unavailable" it reports false.
WifiFlagMeansConnected ==
  \A t \in Threads :
    th[t].pc \in {"s_vpn", "s_ret"} =>
      (th[t].status.wifi <=> wifiDev = "connected")

====
